---- MODULE Spec2Model ----
(***************************************************************************)
(* Row codec and value model of rust-msi:                                  *)
(*   src/internal/table.rs  Table::read_rows, Table::write_rows, Rows      *)
(*   src/internal/value.rs  Value, ValueRef::create / remove / to_value    *)
(* The column codec (internal/column.rs) and the string pool               *)
(* (internal/stringpool.rs) are collaborators whose code is not part of    *)
(* the two files above; they are modelled from their documented contract.  *)
(***************************************************************************)
EXTENDS Integers, Sequences, FiniteSets, TLC

\* ---------------------------------------------------------------- bounds
MaxCols == 2
MaxRows == 2
MaxFail == 2
MaxStreamLen == 9
MaxHeld == 2
MaxHandles == 2

\* ---------------------------------------------------------------- values
\* enum Value { Null, Int(i32), Str(String) }
VNull == [tag |-> "Null", num |-> 0, text |-> ""]
VInt(n) == [tag |-> "Int", num |-> n, text |-> ""]
VStr(s) == [tag |-> "Str", num |-> 0, text |-> s]

\* enum ValueRef { Null, Int(i32), Str(StringRef) }
RNull == [tag |-> "Null", num |-> 0, ref |-> 0]
RInt(n) == [tag |-> "Int", num |-> n, ref |-> 0]
RStr(h) == [tag |-> "Str", num |-> 0, ref |-> h]

\* ---------------------------------------------------------------- column codec
ColTypes == {"Int16", "Int32", "Str"}

\* coltype.width(long_string_refs)
Width(coltype, long) ==
  CASE coltype = "Int16" -> 2
    [] coltype = "Int32" -> 4
    [] coltype = "Str" -> IF long THEN 3 ELSE 2

RECURSIVE Pow256(_)
Pow256(w) == IF w = 0 THEN 1 ELSE 256 * Pow256(w - 1)

\* little-endian bytes of code, w bytes wide
RECURSIVE ToLE(_, _)
ToLE(code, w) ==
  IF w = 0 THEN <<>> ELSE <<code % 256>> \o ToLE(code \div 256, w - 1)

RECURSIVE FromLE(_)
FromLE(bytes) ==
  IF bytes = <<>> THEN 0 ELSE bytes[1] + 256 * FromLE(Tail(bytes))

\* the value of little-endian two's complement bytes
RECURSIVE FromLESigned(_)
FromLESigned(bytes) ==
  IF Len(bytes) = 1
  THEN IF bytes[1] >= 128 THEN bytes[1] - 256 ELSE bytes[1]
  ELSE bytes[1] + 256 * FromLESigned(Tail(bytes))

\* flips the sign bit (the top bit of the last byte)
FlipSign(bytes) == [bytes EXCEPT ![Len(bytes)] = (@ + 128) % 256]

IsZero(bytes) == \A i \in 1..Len(bytes) : bytes[i] = 0

\* the bytes of one cell: all zero is null, an integer is stored in two's
\* complement with its sign bit flipped, a string is stored as its pool handle
EncodeCell(coltype, value_ref, long) ==
  LET w == Width(coltype, long) IN
  IF value_ref.tag = "Null" THEN ToLE(0, w)
  ELSE IF coltype = "Str" THEN ToLE(value_ref.ref % Pow256(w), w)
  ELSE FlipSign(ToLE(value_ref.num, w))

DecodeCell(coltype, bytes, long) ==
  IF IsZero(bytes) THEN RNull
  ELSE IF coltype = "Str" THEN RStr(FromLE(bytes))
  ELSE RInt(FromLESigned(FlipSign(bytes)))

\* A writer is the bytes written so far, the number of write_value calls made
\* on it, and the call (if any, else 0) at which the device fails.
NewWriter(failAt) == [bytes |-> <<>>, ncalls |-> 0, failAt |-> failAt]

\* coltype.write_value(writer, value_ref, long_string_refs)
write_value(coltype, writer, value_ref, long) ==
  IF writer.ncalls + 1 = writer.failAt
  THEN [err |-> TRUE, writer |-> [writer EXCEPT !.ncalls = @ + 1]]
  ELSE [err |-> FALSE,
        writer |-> [writer EXCEPT !.ncalls = @ + 1,
                                  !.bytes = @ \o EncodeCell(coltype, value_ref, long)]]

\* A reader is a seekable byte stream: its bytes, the position, the number of
\* read_value calls made on it and the call at which the device fails (0: never).
NewReader(bytes, failAt, seekFail) ==
  [bytes |-> bytes, pos |-> 0, ncalls |-> 0, failAt |-> failAt, seekFail |-> seekFail]

\* coltype.read_value(reader, long_string_refs)
read_value(coltype, reader, long) ==
  LET w == Width(coltype, long)
      called == [reader EXCEPT !.ncalls = @ + 1] IN
  IF reader.ncalls + 1 = reader.failAt
  THEN [err |-> "Io", reader |-> called, value |-> RNull]
  ELSE IF reader.pos + w > Len(reader.bytes)
  THEN [err |-> "UnexpectedEof", reader |-> called, value |-> RNull]
  ELSE [err |-> "None",
        reader |-> [called EXCEPT !.pos = @ + w],
        value |-> DecodeCell(coltype,
                             SubSeq(reader.bytes, reader.pos + 1, reader.pos + w),
                             long)]

\* ---------------------------------------------------------------- Table
RECURSIVE SumWidths(_, _)
SumWidths(cols, long) ==
  IF cols = <<>> THEN 0
  ELSE Width(Head(cols), long) + SumWidths(Tail(cols), long)

\* row_size of read_rows
RowSize(cols, long) == SumWidths(cols, long)

\* num_rows with the zero-width guard yielding the stream length
NumRowsUnguarded(data_length, row_size) ==
  IF row_size > 0 THEN data_length \div row_size ELSE data_length

\* num_rows rounded up, counting a partial last row
NumRowsRoundedUp(data_length, row_size) ==
  IF row_size > 0 THEN (data_length + row_size - 1) \div row_size ELSE 0

\* num_rows of read_rows
NumRows(data_length, row_size) ==
  IF row_size > 0 THEN data_length \div row_size ELSE 0

\* read_rows with its loops exchanged: row by row
RECURSIVE ReadLoopRowMajor(_, _, _, _, _, _, _)
ReadLoopRowMajor(cols, long, rows, index, r, reader, log) ==
  IF r > Len(rows)
  THEN [outcome |-> "Ok", err |-> "None", rows |-> rows, reader |-> reader, log |-> log]
  ELSE IF index > Len(cols)
  THEN ReadLoopRowMajor(cols, long, rows, 1, r + 1, reader, log)
  ELSE LET res == read_value(cols[index], reader, long) IN
       IF res.err # "None"
       THEN [outcome |-> "Err", err |-> res.err, rows |-> <<>>,
             reader |-> res.reader, log |-> log]
       ELSE ReadLoopRowMajor(cols, long,
                             [rows EXCEPT ![r] = Append(@, res.value)],
                             index + 1, r, res.reader,
                             Append(log, <<r, index, reader.pos>>))

read_rows_row_major(cols, long, reader) ==
  IF reader.seekFail
  THEN [outcome |-> "Err", err |-> "Io", rows |-> <<>>, reader |-> reader, log |-> <<>>]
  ELSE LET num_rows == IF SumWidths(cols, long) > 0
                       THEN Len(reader.bytes) \div SumWidths(cols, long) ELSE 0
       IN ReadLoopRowMajor(cols, long, [i \in 1..num_rows |-> <<>>], 1, 1, reader, <<>>)

\* the two nested loops of read_rows, from column `index`, row `r` on;
\* log is the list of <<row, column, offset>> of the cells read
RECURSIVE ReadLoop(_, _, _, _, _, _, _)
ReadLoop(cols, long, rows, index, r, reader, log) ==
  IF index > Len(cols)
  THEN [outcome |-> "Ok", err |-> "None", rows |-> rows, reader |-> reader, log |-> log]
  ELSE IF r > Len(rows)
  THEN ReadLoop(cols, long, rows, index + 1, 1, reader, log)
  ELSE LET res == read_value(cols[index], reader, long) IN
       IF res.err # "None"
       THEN [outcome |-> "Err", err |-> res.err, rows |-> <<>>,
             reader |-> res.reader, log |-> log]
       ELSE ReadLoop(cols, long,
                     [rows EXCEPT ![r] = Append(@, res.value)],
                     index, r + 1, res.reader,
                     Append(log, <<r, index, reader.pos>>))

read_rows(cols, long, reader) ==
  IF reader.seekFail
  THEN [outcome |-> "Err", err |-> "Io", rows |-> <<>>, reader |-> reader, log |-> <<>>]
  ELSE LET data_length == Len(reader.bytes)
           row_size == RowSize(cols, long)
           num_rows == NumRows(data_length, row_size)
           rows == [i \in 1..num_rows |-> <<>>]
       IN ReadLoop(cols, long, rows, 1, 1, reader, <<>>)

\* write_rows with its loops exchanged: row by row
RECURSIVE WriteLoopRowMajor(_, _, _, _, _, _, _)
WriteLoopRowMajor(cols, long, rows, index, r, writer, log) ==
  IF r > Len(rows)
  THEN [outcome |-> "Ok", writer |-> writer, log |-> log]
  ELSE IF index > Len(cols)
  THEN WriteLoopRowMajor(cols, long, rows, 1, r + 1, writer, log)
  ELSE IF index > Len(rows[r])
  THEN [outcome |-> "Panic", writer |-> writer, log |-> log]
  ELSE LET res == write_value(cols[index], writer, rows[r][index], long) IN
       IF res.err
       THEN [outcome |-> "Err", writer |-> res.writer, log |-> log]
       ELSE WriteLoopRowMajor(cols, long, rows, index + 1, r, res.writer,
                              Append(log, <<r, index>>))

write_rows_row_major(cols, long, writer, rows) ==
  WriteLoopRowMajor(cols, long, rows, 1, 1, writer, <<>>)

\* the loops of write_rows with the result of write_value dropped
RECURSIVE WriteLoopSwallow(_, _, _, _, _, _, _)
WriteLoopSwallow(cols, long, rows, index, r, writer, log) ==
  IF index > Len(cols)
  THEN [outcome |-> "Ok", writer |-> writer, log |-> log]
  ELSE IF r > Len(rows)
  THEN WriteLoopSwallow(cols, long, rows, index + 1, 1, writer, log)
  ELSE IF index > Len(rows[r])
  THEN [outcome |-> "Panic", writer |-> writer, log |-> log]
  ELSE LET res == write_value(cols[index], writer, rows[r][index], long) IN
       WriteLoopSwallow(cols, long, rows, index, r + 1, res.writer,
                        IF res.err THEN log ELSE Append(log, <<r, index>>))

\* the two nested loops of write_rows, from column `index`, row `r` on;
\* log is the list of <<row, column>> of the cells written
RECURSIVE WriteLoop(_, _, _, _, _, _, _)
WriteLoop(cols, long, rows, index, r, writer, log) ==
  IF index > Len(cols)
  THEN [outcome |-> "Ok", writer |-> writer, log |-> log]
  ELSE IF r > Len(rows)
  THEN WriteLoop(cols, long, rows, index + 1, 1, writer, log)
  ELSE IF index > Len(rows[r])
  THEN [outcome |-> "Panic", writer |-> writer, log |-> log]
  ELSE LET res == write_value(cols[index], writer, rows[r][index], long) IN
       IF res.err
       THEN [outcome |-> "Err", writer |-> res.writer, log |-> log]
       ELSE WriteLoop(cols, long, rows, index, r + 1, res.writer,
                      Append(log, <<r, index>>))

write_rows(cols, long, writer, rows) ==
  WriteLoop(cols, long, rows, 1, 1, writer, <<>>)

\* ---------------------------------------------------------------- StringPool
\* The pool maps a handle to its text and reference count; a handle whose count
\* is 0 is free.
Handles == 1..MaxHandles
FreeEntry == [text |-> "", count |-> 0]
EmptyPool == [h \in Handles |-> FreeEntry]

Live(pool) == {h \in Handles : pool[h].count > 0}

\* pool.incref(text): the handle of the live entry of that text, its count
\* raised, or else a new entry of count 1 at a free handle; the results a
\* call can have, as <<pool, handle>>
incref(pool, text) ==
  IF \E h \in Live(pool) : pool[h].text = text
  THEN {[pool |-> [pool EXCEPT ![h].count = @ + 1], handle |-> h] :
          h \in {g \in Live(pool) : pool[g].text = text}}
  ELSE {[pool |-> [pool EXCEPT ![h] = [text |-> text, count |-> 1]], handle |-> h] :
          h \in Handles \ Live(pool)}

\* pool.decref(handle): one use less; at 0 the entry is retired
decref(pool, handle) ==
  IF pool[handle].count = 1 THEN [pool EXCEPT ![handle] = FreeEntry]
  ELSE [pool EXCEPT ![handle].count = @ - 1]

\* pool.get(handle)
get(pool, handle) == pool[handle].text

\* ---------------------------------------------------------------- ValueRef
\* ValueRef::create with the zero integer taken for null
create_zero_is_null(value, string_pool) ==
  CASE value.tag = "Null" -> {[pool |-> string_pool, ref |-> RNull]}
    [] value.tag = "Int" ->
         {[pool |-> string_pool,
           ref |-> IF value.num = 0 THEN RNull ELSE RInt(value.num)]}
    [] value.tag = "Str" ->
         {[pool |-> res.pool, ref |-> RStr(res.handle)] :
            res \in incref(string_pool, value.text)}

\* ValueRef::create(value, string_pool): the results a call can have, as the
\* pool it leaves and the ValueRef it returns
create(value, string_pool) ==
  CASE value.tag = "Null" -> {[pool |-> string_pool, ref |-> RNull]}
    [] value.tag = "Int" -> {[pool |-> string_pool, ref |-> RInt(value.num)]}
    [] value.tag = "Str" ->
         {[pool |-> res.pool, ref |-> RStr(res.handle)] :
            res \in incref(string_pool, value.text)}

\* ValueRef::remove that releases nothing
remove_leaks(value_ref, string_pool) == string_pool

\* value_ref.remove(string_pool): the pool it leaves
remove(value_ref, string_pool) ==
  IF value_ref.tag = "Str" THEN decref(string_pool, value_ref.ref)
  ELSE string_pool

\* value_ref.to_value(string_pool)
to_value(value_ref, string_pool) ==
  CASE value_ref.tag = "Null" -> VNull
    [] value_ref.tag = "Int" -> VInt(value_ref.num)
    [] value_ref.tag = "Str" -> VStr(get(string_pool, value_ref.ref))

\* ---------------------------------------------------------------- Rows
NoItem == [some |-> FALSE, values |-> <<>>]

\* Rows::new(string_pool, table, rows)
Rows_new(rows) == [rows |-> rows, next_row_index |-> 0]

\* Rows::next that leaves the cursor where it is
Rows_next_stuck(it, string_pool) ==
  IF it.next_row_index < Len(it.rows)
  THEN [it |-> it,
        item |-> [some |-> TRUE,
                  values |-> [c \in 1..Len(it.rows[it.next_row_index + 1]) |->
                                to_value(it.rows[it.next_row_index + 1][c],
                                         string_pool)]]]
  ELSE [it |-> it, item |-> NoItem]

\* rows.next(): the iterator it leaves and the item it returns
Rows_next(it, string_pool) ==
  IF it.next_row_index < Len(it.rows)
  THEN [it |-> [it EXCEPT !.next_row_index = @ + 1],
        item |-> [some |-> TRUE,
                  values |-> [c \in 1..Len(it.rows[it.next_row_index + 1]) |->
                                to_value(it.rows[it.next_row_index + 1][c],
                                         string_pool)]]]
  ELSE [it |-> it, item |-> NoItem]

\* rows.size_hint(): <<lower, upper>>
size_hint(it) ==
  LET remaining_rows == Len(it.rows) - it.next_row_index IN
  <<remaining_rows, remaining_rows>>

\* ---------------------------------------------------------------- inputs
\* the schemas: up to MaxCols columns of any type, either string-ref width
Schemas == UNION {[1..n -> ColTypes] : n \in 0..MaxCols}

\* cells a column of the given type holds: null and two values of its type
\* that fit its width
CellDomain(coltype) ==
  CASE coltype = "Str" -> <<RNull, RStr(1), RStr(2)>>
    [] coltype = "Int16" -> <<RNull, RInt(0), RInt(-2)>>
    [] coltype = "Int32" -> <<RNull, RInt(0), RInt(1234567)>>

RowKinds == {1, 2}

\* a row of the schema; its cells differ from column to column and kind to kind
RowOfKind(cols, kind) ==
  [c \in 1..Len(cols) |-> CellDomain(cols[c])[((kind + c) % 3) + 1]]

\* rows of exactly num_columns cells
WellFormedRows(cols) ==
  {[r \in 1..Len(kinds) |-> RowOfKind(cols, kinds[r])] :
     kinds \in UNION {[1..k -> RowKinds] : k \in 0..MaxRows}}

\* row b cut to len cells, or given one cell more than the schema has
Reshape(rows, b, len) ==
  [rows EXCEPT ![b] = IF len <= Len(@) THEN SubSeq(@, 1, len)
                      ELSE @ \o <<RInt(7)>>]

\* k rows of alternating kinds, the one at b reshaped
MisshapenRows(cols) ==
  {Reshape([r \in 1..k |-> RowOfKind(cols, (r % 2) + 1)], b, len) :
     <<k, b, len>> \in {t \in (1..MaxRows) \X (1..MaxRows) \X (0..(Len(cols) + 1)) :
                        t[2] <= t[1] /\ t[3] # Len(cols)}}

RowsInputs(cols) == WellFormedRows(cols) \cup MisshapenRows(cols)

\* the bytes of a stream the container supplies
PatternByte(i) == (i * 37 + 1) % 256
SuppliedStream(L) == [i \in 1..L |-> PatternByte(i)]

\* the values handed to ValueRef::create
Texts == {"a", "b"}
Values == {VNull, VInt(0), VInt(1234567)} \cup {VStr(t) : t \in Texts}

\* the ValueRefs create can return
AllRefs == {RNull, RInt(0), RInt(1234567)} \cup {RStr(h) : h \in Handles}

\* the table of two columns, a 4-byte integer and a string ref, short refs
ExampleColumns == <<"Int32", "Str">>

\* the rows of the example table over the live strings of the pool
ExampleRows(pool) ==
  {<<RNull, RNull>>} \cup {<<RInt(h), RStr(h)>> : h \in Live(pool)}

RowsOfPool(pool) ==
  UNION {[1..k -> ExampleRows(pool)] : k \in 0..MaxRows}

\* ---------------------------------------------------------------- state
VARIABLES
  columns,            \* Table.columns: the column types, in schema order
  long_string_refs,   \* Table.long_string_refs
  stream,             \* the bytes of the table's stream
  op,                 \* the operation that ran last
  wres,               \* the last write_rows call: its rows and its result
  rres,               \* the last read_rows call: its result
  string_pool,        \* the StringPool
  held,               \* per ValueRef, how many were created and not yet removed
  vres,               \* the last create / remove / to_value call
  iter,               \* the Rows iterator, if one is alive
  ires                \* the last next() call and the calls made so far

tableVars == <<columns, long_string_refs>>
codecVars == <<stream, wres, rres>>
valueVars == <<string_pool, held, vres, iter, ires>>
vars == <<columns, long_string_refs, stream, op, wres, rres,
          string_pool, held, vres, iter, ires>>

NoWrite == [outcome |-> "None", rows |-> <<>>, log |-> <<>>, ncalls |-> 0, failAt |-> 0]
NoRead == [outcome |-> "None", err |-> "None", rows |-> <<>>, log |-> <<>>,
           pos |-> 0, ncalls |-> 0, failAt |-> 0, seekFail |-> FALSE]

NoValue == [value |-> VNull, ref |-> RNull]
NoRows == [alive |-> FALSE, rows |-> <<>>, next_row_index |-> 0]
NoCalls == [built |-> <<>>, ncalls |-> 0, item |-> NoItem]

\* StringPool::new, no ValueRef yet, no Rows
InitValue ==
  /\ string_pool = EmptyPool
  /\ held = [ref \in AllRefs |-> 0]
  /\ vres = NoValue
  /\ iter = NoRows
  /\ ires = NoCalls

InitCodec ==
  /\ stream = <<>>
  /\ wres = NoWrite
  /\ rres = NoRead

\* Table::new and an empty stream
Init ==
  /\ columns \in Schemas
  /\ long_string_refs \in BOOLEAN
  /\ op = "new"
  /\ InitCodec
  /\ InitValue

\* table.write_rows(writer, rows) on a fresh stream.  The call does not read
\* the state it starts in, so it is taken from the initial state only: a later
\* call leads to the same states.
WriteRows ==
  \E rows \in RowsInputs(columns), failAt \in 0..MaxFail :
    LET res == write_rows(columns, long_string_refs, NewWriter(failAt), rows) IN
    /\ op = "new"
    /\ stream' = res.writer.bytes
    /\ wres' = [outcome |-> res.outcome, rows |-> rows, log |-> res.log,
                ncalls |-> res.writer.ncalls, failAt |-> failAt]
    /\ rres' = NoRead
    /\ op' = "write_rows"
    /\ UNCHANGED <<tableVars, valueVars>>

\* table.read_rows(reader) on the table's stream, with a reader of its own.
\* The call leaves the stream as it is, so a second read leads to the same
\* states as the first and is not taken.
ReadRows ==
  \E failAt \in 0..MaxFail, seekFail \in BOOLEAN :
    LET res == read_rows(columns, long_string_refs,
                         NewReader(stream, failAt, seekFail)) IN
    /\ op # "read_rows"
    /\ seekFail => failAt = 0
    /\ rres' = [outcome |-> res.outcome, err |-> res.err, rows |-> res.rows,
                log |-> res.log, pos |-> res.reader.pos,
                ncalls |-> res.reader.ncalls, failAt |-> failAt,
                seekFail |-> seekFail]
    /\ op' = "read_rows"
    /\ UNCHANGED <<tableVars, stream, wres, valueVars>>

\* the container hands over a stream of L bytes written elsewhere
SupplyStream ==
  \E L \in 0..MaxStreamLen :
    /\ op = "new"
    /\ stream' = SuppliedStream(L)
    /\ wres' = NoWrite
    /\ rres' = NoRead
    /\ op' = "supply"
    /\ UNCHANGED <<tableVars, valueVars>>

Next == WriteRows \/ ReadRows \/ SupplyStream

Spec == Init /\ [][Next]_vars

\* ---------------------------------------------------------------- value layer
HeldTotal == LET RECURSIVE Sum(_)
                 Sum(S) == IF S = {} THEN 0
                           ELSE LET x == CHOOSE y \in S : TRUE
                                IN held[x] + Sum(S \ {x})
             IN Sum(AllRefs)

\* ValueRef::create(value, &mut string_pool); a Rows borrows the pool, so
\* none is alive
Create ==
  \E value \in Values :
    \E res \in create(value, string_pool) :
      /\ ~iter.alive
      /\ HeldTotal < MaxHeld
      /\ string_pool' = res.pool
      /\ held' = [held EXCEPT ![res.ref] = @ + 1]
      /\ vres' = [value |-> value, ref |-> res.ref]
      /\ op' = "create"
      /\ UNCHANGED <<tableVars, codecVars, iter, ires>>

\* value_ref.remove(&mut string_pool) of a ValueRef created and not yet removed
Remove ==
  \E value_ref \in AllRefs :
    /\ ~iter.alive
    /\ held[value_ref] > 0
    /\ string_pool' = remove(value_ref, string_pool)
    /\ held' = [held EXCEPT ![value_ref] = @ - 1]
    /\ vres' = [value |-> VNull, ref |-> value_ref]
    /\ op' = "remove"
    /\ UNCHANGED <<tableVars, codecVars, iter, ires>>

\* value_ref.to_value(&string_pool) of a ValueRef created and not yet removed
ToValue ==
  \E value_ref \in AllRefs :
    /\ held[value_ref] > 0
    /\ vres' = [value |-> to_value(value_ref, string_pool), ref |-> value_ref]
    /\ op' = "to_value"
    /\ UNCHANGED <<tableVars, codecVars, string_pool, held, iter, ires>>

\* Rows::new(&string_pool, &table, rows)
RowsNew ==
  \E rows \in RowsOfPool(string_pool) :
    /\ ~iter.alive
    /\ iter' = [alive |-> TRUE] @@ Rows_new(rows)
    /\ ires' = [built |-> rows, ncalls |-> 0, item |-> NoItem]
    /\ op' = "rows_new"
    /\ UNCHANGED <<tableVars, codecVars, string_pool, held, vres>>

\* the pool after value_ref.remove of every cell of a row
RECURSIVE RemoveAll(_, _)
RemoveAll(row, pool) ==
  IF row = <<>> THEN pool ELSE RemoveAll(Tail(row), remove(Head(row), pool))

\* rows.next() that releases the string refs of the row it yields
RowsNextReleasing ==
  LET res == Rows_next([rows |-> iter.rows, next_row_index |-> iter.next_row_index],
                       string_pool) IN
  /\ iter.alive
  /\ ires.ncalls < Len(ires.built) + 2
  /\ iter' = [alive |-> TRUE] @@ res.it
  /\ ires' = [ires EXCEPT !.ncalls = @ + 1, !.item = res.item]
  /\ op' = "next"
  /\ string_pool' = IF res.item.some
                    THEN RemoveAll(iter.rows[iter.next_row_index + 1], string_pool)
                    ELSE string_pool
  /\ UNCHANGED <<tableVars, codecVars, held, vres>>

\* rows.next(); the calls are counted up to two past the end
RowsNext ==
  LET res == Rows_next([rows |-> iter.rows, next_row_index |-> iter.next_row_index],
                       string_pool) IN
  /\ iter.alive
  /\ ires.ncalls < Len(ires.built) + 2
  /\ iter' = [alive |-> TRUE] @@ res.it
  /\ ires' = [ires EXCEPT !.ncalls = @ + 1, !.item = res.item]
  /\ op' = "next"
  /\ UNCHANGED <<tableVars, codecVars, string_pool, held, vres>>

\* the Rows is dropped
RowsDrop ==
  /\ iter.alive
  /\ iter' = NoRows
  /\ ires' = NoCalls
  /\ op' = "rows_drop"
  /\ UNCHANGED <<tableVars, codecVars, string_pool, held, vres>>

\* the example table, StringPool::new
InitPool ==
  /\ columns = ExampleColumns
  /\ long_string_refs = FALSE
  /\ op = "new"
  /\ InitCodec
  /\ InitValue

NextValue == Create \/ Remove \/ ToValue \/ RowsNew \/ RowsNext \/ RowsDrop

SpecValue == InitPool /\ [][NextValue]_vars

\* ---------------------------------------------------------------- codec claims
NumCols == Len(columns)

WellFormed(rows) == \A r \in 1..Len(rows) : Len(rows[r]) = NumCols

IsPrefix(s, t) == Len(s) <= Len(t) /\ s = SubSeq(t, 1, Len(s))

\* <<row, column>> of the cells of k rows of n columns, column by column
ColumnMajor(k, n) ==
  [i \in 1..(k * n) |-> <<((i - 1) % k) + 1, ((i - 1) \div k) + 1>>]

\* what the stream length and the schema say about the rows of the stream
StreamRowSize == SumWidths(columns, long_string_refs)
StreamNumRows ==
  IF StreamRowSize = 0 THEN 0 ELSE Len(stream) \div StreamRowSize

\* where the cell of row r, column c starts in a stream of num_rows rows
CellOffset(num_rows, r, c) ==
  num_rows * SumWidths(SubSeq(columns, 1, c - 1), long_string_refs)
    + (r - 1) * Width(columns[c], long_string_refs)

CellBytes(num_rows, r, c) ==
  SubSeq(stream, CellOffset(num_rows, r, c) + 1,
         CellOffset(num_rows, r, c) + Width(columns[c], long_string_refs))

\* the bytes of the cells of log, in the order of log
RECURSIVE BytesOf(_, _)
BytesOf(rows, log) ==
  IF log = <<>> THEN <<>>
  ELSE EncodeCell(columns[Head(log)[2]], rows[Head(log)[1]][Head(log)[2]],
                  long_string_refs) \o BytesOf(rows, Tail(log))

\* C1: for a table of at least one column, k rows of num_columns cells each
\* (every cell a value its column holds) written by write_rows into an empty
\* stream are what read_rows returns from that stream: k rows, in the same
\* order, every cell equal to the one written.
C1_RoundTrip ==
  (/\ op = "read_rows"
   /\ wres.outcome = "Ok"
   /\ WellFormed(wres.rows)
   /\ NumCols >= 1
   /\ rres.err # "Io")
  => /\ rres.outcome = "Ok"
     /\ Len(rres.rows) = Len(wres.rows)
     /\ rres.rows = wres.rows

C1_Witness ==
  /\ op = "read_rows"
  /\ wres.outcome = "Ok"
  /\ NumCols = 2
  /\ columns[1] # columns[2]
  /\ Len(wres.rows) = 2
  /\ WellFormed(wres.rows)
  /\ wres.rows[1] # wres.rows[2]
  /\ rres.outcome = "Ok"
  /\ rres.rows = wres.rows

\* C2: write_rows calls write_value column by column: for k rows of
\* num_columns cells the calls are (row 1, col 1), ..., (row k, col 1), then
\* the rows of col 2, and so on; each cell is written once and the output is
\* k times the row size long.
C2_ColumnMajorWrite ==
  (op = "write_rows" /\ WellFormed(wres.rows))
  => /\ IsPrefix(wres.log, ColumnMajor(Len(wres.rows), NumCols))
     /\ wres.failAt = 0 => wres.outcome = "Ok"
     /\ wres.outcome = "Ok" =>
          /\ wres.log = ColumnMajor(Len(wres.rows), NumCols)
          /\ \A i, j \in 1..Len(wres.log) :
               wres.log[i][2] < wres.log[j][2] => i < j
          /\ Len(stream) = Len(wres.rows) * StreamRowSize

C2_Witness ==
  /\ op = "write_rows"
  /\ wres.outcome = "Ok"
  /\ WellFormed(wres.rows)
  /\ wres.log = <<(<<1, 1>>), (<<2, 1>>), (<<1, 2>>), (<<2, 2>>)>>
  /\ Len(stream) = 2 * StreamRowSize

\* C3: a successful read_rows returns num_rows rows, num_rows being 0 when
\* the row size is 0 and floor(L / row_size) otherwise; every row has
\* num_columns cells, the cell of column c decoded by column c.
C3_RowCount ==
  (op = "read_rows" /\ rres.outcome = "Ok")
  => /\ Len(rres.rows) = StreamNumRows
     /\ StreamRowSize = 0 => rres.rows = <<>>
     /\ \A r \in 1..Len(rres.rows) :
          /\ Len(rres.rows[r]) = NumCols
          /\ \A c \in 1..NumCols :
               rres.rows[r][c] =
                 DecodeCell(columns[c], CellBytes(StreamNumRows, r, c),
                            long_string_refs)

C3_Witness ==
  /\ op = "read_rows"
  /\ rres.outcome = "Ok"
  /\ NumCols = 2
  /\ Len(rres.rows) = 2
  /\ Len(stream) = 2 * StreamRowSize + 1
  /\ Len(rres.rows[1]) = 2

\* C7 (as claimed): write_rows given a row whose length is not num_columns
\* never returns Ok.
C7_MismatchIsFatal ==
  (op = "write_rows" /\ ~WellFormed(wres.rows)) => wres.outcome # "Ok"

\* C8: a cell read or write that fails with an I/O error ends the call at
\* once with that error: no cell is read or written after it, read_rows
\* returns no rows, and after write_rows the stream holds the column-major
\* prefix of the cells written before the failure.
C8_IoErrorPropagates ==
  /\ (op = "write_rows" /\ wres.failAt > 0 /\ wres.ncalls >= wres.failAt)
     => /\ wres.outcome = "Err"
        /\ wres.ncalls = wres.failAt
        /\ Len(wres.log) = wres.failAt - 1
        /\ IsPrefix(wres.log, ColumnMajor(Len(wres.rows), NumCols))
        /\ stream = BytesOf(wres.rows, wres.log)
  /\ (op = "read_rows" /\ rres.failAt > 0 /\ rres.ncalls >= rres.failAt)
     => /\ rres.outcome = "Err"
        /\ rres.err = "Io"
        /\ rres.ncalls = rres.failAt
        /\ Len(rres.log) = rres.failAt - 1
        /\ rres.rows = <<>>

C8_Witness ==
  /\ op = "write_rows"
  /\ wres.outcome = "Err"
  /\ wres.failAt = 2
  /\ wres.ncalls = 2
  /\ Len(wres.rows) = 2
  /\ Len(stream) = Width(columns[1], long_string_refs)

\* C10: read_rows on a stream of L bytes never runs into the end of the
\* stream; when no device error stops it, it succeeds having consumed
\* num_rows * row_size <= L bytes, the cells of column c taken from offset
\* num_rows * (w1 + ... + w(c-1)) on, and the L mod row_size bytes left
\* over are ignored.
C10_ReadStaysInStream ==
  (op = "read_rows" /\ ~rres.seekFail)
  => /\ rres.err # "UnexpectedEof"
     /\ rres.failAt = 0 => rres.outcome = "Ok"
     /\ \A i \in 1..Len(rres.log) :
          rres.log[i][3] = CellOffset(StreamNumRows, rres.log[i][1], rres.log[i][2])
     /\ rres.outcome = "Ok" =>
          /\ rres.pos = StreamNumRows * StreamRowSize
          /\ rres.pos <= Len(stream)
          /\ StreamRowSize > 0 => Len(stream) - rres.pos = Len(stream) % StreamRowSize
          /\ Len(rres.log) = StreamNumRows * NumCols

C10_Witness ==
  /\ op = "read_rows"
  /\ wres.outcome = "None"
  /\ rres.outcome = "Ok"
  /\ NumCols = 2
  /\ columns[1] # columns[2]
  /\ Len(rres.rows) >= 2
  /\ Len(stream) % StreamRowSize # 0
  /\ rres.pos < Len(stream)

\* ---------------------------------------------------------------- value claims
\* C4: for every Value v, ValueRef::create(v, pool).to_value(pool) = v,
\* whatever earlier create and remove calls have made of the pool.
C4_CreateToValue ==
  op = "create" => to_value(vres.ref, string_pool) = vres.value

C4_Witness ==
  /\ op = "create"
  /\ vres.value = VStr("b")
  /\ vres.ref.tag = "Str"
  /\ \E h \in Live(string_pool) :
       h # vres.ref.ref /\ string_pool[h].text = "a"
  /\ to_value(vres.ref, string_pool) = VStr("b")

\* the handles some ValueRef created and not yet removed holds
HeldHandles == {h \in Handles : held[RStr(h)] > 0}

\* one count of the pool moved by d, nothing else
OneCountMoved(d) ==
  \E h \in Handles :
    /\ string_pool'[h].count = string_pool[h].count + d
    /\ \A g \in Handles \ {h} : string_pool'[g] = string_pool[g]

\* C5: with each created ValueRef removed at most once, the count of a handle
\* is the number of ValueRef::Str created and not yet removed that hold it;
\* create of a Str raises one count by one, remove of a Str lowers one count
\* by one, create and remove of Null or Int leave the pool alone; a handle
\* still held has count >= 1, and with everything removed the pool has as
\* many live entries as at the start, none.
C5_RefCounts ==
  /\ [](/\ \A h \in Handles : string_pool[h].count = held[RStr(h)]
        /\ \A h \in HeldHandles : string_pool[h].count >= 1
        /\ Cardinality(Live(string_pool)) = Cardinality(HeldHandles)
        /\ HeldTotal = 0 => Live(string_pool) = {})
  /\ [][/\ (op' = "create" /\ vres'.ref.tag = "Str") => OneCountMoved(1)
        /\ (op' = "remove" /\ vres'.ref.tag = "Str") => OneCountMoved(-1)
        /\ (op' \in {"create", "remove"} /\ vres'.ref.tag # "Str")
             => string_pool' = string_pool]_vars

C5_Witness ==
  /\ op = "remove"
  /\ vres.ref.tag = "Str"
  /\ string_pool[vres.ref.ref].count = 1
  /\ held[vres.ref] = 1
  /\ Cardinality(Live(string_pool)) = 1

\* the row of Values a row of ValueRefs stands for
Deref(row) ==
  [c \in 1..Len(row) |->
     IF row[c].tag = "Str" THEN VStr(string_pool[row[c].ref].text)
     ELSE IF row[c].tag = "Int" THEN VInt(row[c].num)
     ELSE VNull]

Yielded == IF ires.ncalls < Len(ires.built) THEN ires.ncalls ELSE Len(ires.built)

\* C6: a Rows over n rows reports n minus the rows yielded as its remaining
\* count; the i-th call of next() returns row i for i <= n, every later call
\* returns None, and the cursor never passes n.
C6_RowsCursor ==
  iter.alive =>
    /\ iter.rows = ires.built
    /\ iter.next_row_index = Yielded
    /\ iter.next_row_index <= Len(ires.built)
    /\ size_hint(iter) = <<Len(ires.built) - Yielded, Len(ires.built) - Yielded>>
    /\ (op = "next" /\ ires.ncalls <= Len(ires.built))
         => /\ ires.item.some
            /\ ires.item.values = Deref(ires.built[ires.ncalls])
    /\ (op = "next" /\ ires.ncalls > Len(ires.built)) => ires.item = NoItem

C6_Witness ==
  /\ iter.alive
  /\ op = "next"
  /\ Len(ires.built) = 2
  /\ ires.built[1] # ires.built[2]
  /\ ires.ncalls = 2
  /\ ires.item.some
  /\ ires.item.values = Deref(ires.built[2])
  /\ size_hint(iter) = <<0, 0>>

\* C9: to_value and next() leave the pool as it is, every handle's text and
\* count and the set of live entries, and leave the table schema as it is.
C9_ReadOnly ==
  [][op' \in {"to_value", "next"}
       => /\ string_pool' = string_pool
          /\ Live(string_pool') = Live(string_pool)
          /\ columns' = columns
          /\ long_string_refs' = long_string_refs]_vars

C9_Witness ==
  /\ op = "next"
  /\ ires.ncalls = 2
  /\ ires.item.some
  /\ ires.item.values[2].tag = "Str"
  /\ Cardinality(Live(string_pool)) = 2

====
